---- MODULE Spec2Model ----
(***************************************************************************)
(* Verification model of xuperos:                                          *)
(*   - cmd/xuperos/cmd/startup.go : StartupXuperos, runEngine, runServ     *)
(*   - the rpc server (package endorser): UnaryInterceptor, getClient      *)
(* Three independent parts of the program are modelled, each with its own  *)
(* specification: SpecLife (the startup/shutdown orchestrator), SpecCache  *)
(* (the endorser client cache) and SpecIcpt (the unary interceptor).       *)
(***************************************************************************)
EXTENDS Integers, Sequences, FiniteSets, TLC

\* ------------------------------------------------------------------ bounds
\* Number of termination signals the OS delivers during one run.
MaxSignals == 2
\* Number of tasks calling getClient concurrently.
NumTasks == 2
\* Total number of getClient calls made during one run.
MaxCalls == 4
\* Number of unary calls the serving task handles during one run.
MaxRpcCalls == 2

VARIABLES
    \* ---- StartupXuperos (startup.go:73-101)
    wg,            \* sync.WaitGroup counter (wg.Add(2))
    mainPc,        \* "wait": blocked in wg.Wait(); "returned": StartupXuperos returned
    coordPc,       \* position of the coordinating goroutine (startup.go:82-97)
    engPc,         \* goroutine of runEngine: "start" | "send" | "done"
    servPc,        \* goroutine of runServ:   "run"   | "send" | "done"
    rpcChan,       \* the channel the select's second case names: "empty" | "send" | "done"
    servExitReqs,  \* number of serv.Exit() calls made
    engExitReqs,   \* number of engine.Exit() calls made
    sigSeen,       \* number of signals received on sigChan
    handled,       \* the select cases taken, in order
    sigBothRunning \* a signal was received while Start() and Run() were both running

lifeVars == <<wg, mainPc, coordPc, engPc, servPc, rpcChan,
              servExitReqs, engExitReqs, sigSeen, handled, sigBothRunning>>

VARIABLES
    \* ---- RpcServ.getHost / RpcServ.getClient (part_000:166-197)
    EndorserHosts, \* t.conf.EndorserHosts: the configured host list (static)
    clientCache,   \* t.clientCache (sync.Map): host -> client handle, 0 = no entry
    mutex,         \* t.mutex: 0 = unlocked, otherwise the task holding it
    tPc,           \* per task: position inside getClient, "idle" between calls
    tHost,         \* per task: the host argument of the current call
    tConn,         \* per task: the client built from the dialled connection
    tRes,          \* per task: what the last finished call returned
    calls,         \* number of getClient calls started
    dialCount,     \* per host: number of grpc.Dial calls made
    dialFails,     \* per host: number of grpc.Dial calls that returned an error
    nextConn,      \* next fresh connection handle
    returns        \* set of <<host, handle>> returned by successful calls

cacheVars == <<EndorserHosts, clientCache, mutex, tPc, tHost, tConn, tRes,
               calls, dialCount, dialFails, nextConn, returns>>

VARIABLES
    \* ---- RpcServ.UnaryInterceptor (part_000:43-106), one serving task
    ic,            \* the call in progress: its position, arguments and locals
    iCalls,        \* number of calls started
    serving,       \* the serving task is alive (no fault escaped the interceptor)
    nextLogId,     \* utils.GenLogId: number of ids generated so far
    faults,        \* number of panics the serving task has been through
    out            \* what the last finished call returned to grpc

icptVars == <<ic, iCalls, serving, nextLogId, faults, out>>

vars == <<lifeVars, cacheVars, icptVars>>

notLife == <<cacheVars, icptVars>>
notCache == <<lifeVars, icptVars>>
notIcpt == <<lifeVars, cacheVars>>

\* ================================================================ lifecycle

\* State after startup.go:81: both goroutines started, wg.Add(2) done, the
\* coordinating goroutine about to select.  rpcChan is not declared anywhere
\* in the source: it is NOT servChan (the channel runServ returned, which no
\* statement of StartupXuperos ever receives from).
InitLife ==
    /\ wg = 2
    /\ mainPc = "wait"
    /\ coordPc = "select"
    /\ engPc = "start"
    /\ servPc = "run"
    /\ rpcChan = "empty"
    /\ servExitReqs = 0
    /\ engExitReqs = 0
    /\ sigSeen = 0
    /\ handled = <<>>
    /\ sigBothRunning = FALSE

\* engine.Start() returns (on its own, or because Exit was requested); the
\* goroutine then blocks in `exitCh <- true` (unbuffered channel).
EngineStartReturns ==
    /\ engPc = "start"
    /\ engPc' = "send"
    /\ UNCHANGED <<notLife, sigBothRunning, wg, mainPc, coordPc, servPc, rpcChan, servExitReqs,
                   engExitReqs, sigSeen, handled>>

\* servMG.Run() returns; the goroutine then blocks in `exitCh <- err` on the
\* channel runServ returned (servChan).
ServRunReturns ==
    /\ servPc = "run"
    /\ servPc' = "send"
    /\ UNCHANGED <<notLife, sigBothRunning, wg, mainPc, coordPc, engPc, rpcChan, servExitReqs,
                   engExitReqs, sigSeen, handled>>

\* Whatever completion source rpcChan stands for has a value to deliver.  It
\* is a completion source fired at most once, unrelated to runServ's channel.
RpcChanSenderReady ==
    /\ rpcChan = "empty"
    /\ rpcChan' = "send"
    /\ UNCHANGED <<notLife, sigBothRunning, wg, mainPc, coordPc, engPc, servPc, servExitReqs,
                   engExitReqs, sigSeen, handled>>

\* case <-engChan: the rendezvous with runEngine's send.
RecvEngChan ==
    /\ coordPc = "select"
    /\ engPc = "send"
    /\ engPc' = "done"
    /\ coordPc' = "l87"
    /\ handled' = Append(handled, "engChan")
    /\ UNCHANGED <<notLife, sigBothRunning, wg, mainPc, servPc, rpcChan, servExitReqs, engExitReqs, sigSeen>>

\* case <-rpcChan
RecvRpcChan ==
    /\ coordPc = "select"
    /\ rpcChan = "send"
    /\ rpcChan' = "done"
    /\ coordPc' = "l90"
    /\ handled' = Append(handled, "rpcChan")
    /\ UNCHANGED <<notLife, sigBothRunning, wg, mainPc, engPc, servPc, servExitReqs, engExitReqs, sigSeen>>

\* case <-sigChan: SIGINT, SIGTERM and SIGQUIT arrive on the same unbuffered
\* channel; os/signal drops a signal when the receiver is not ready, so a
\* signal is received only while the goroutine is blocked in select.
RecvSigChan ==
    /\ coordPc = "select"
    /\ sigSeen < MaxSignals
    /\ sigSeen' = sigSeen + 1
    /\ coordPc' = "l93"
    /\ handled' = Append(handled, "sigChan")
    /\ sigBothRunning' = (sigBothRunning \/ (engPc = "start" /\ servPc = "run"))
    /\ UNCHANGED <<notLife, wg, mainPc, engPc, servPc, rpcChan, servExitReqs, engExitReqs>>

\* serv.Exit() at line 87 (engChan case) or 93 (sigChan case)
ServExit ==
    /\ coordPc \in {"l87", "l93"}
    /\ servExitReqs' = servExitReqs + 1
    /\ coordPc' = IF coordPc = "l87" THEN "l88" ELSE "l94"
    /\ UNCHANGED <<notLife, sigBothRunning, wg, mainPc, engPc, servPc, rpcChan, engExitReqs, sigSeen, handled>>

\* engine.Exit() at line 90 (rpcChan case) or 94 (sigChan case)
EngineExit ==
    /\ coordPc \in {"l90", "l94"}
    /\ engExitReqs' = engExitReqs + 1
    /\ coordPc' = IF coordPc = "l90" THEN "l91" ELSE "select"
    /\ UNCHANGED <<notLife, sigBothRunning, wg, mainPc, engPc, servPc, rpcChan, servExitReqs, sigSeen, handled>>

\* wg.Done() at line 88 or 91
WgDone ==
    /\ coordPc \in {"l88", "l91"}
    /\ wg' = wg - 1
    /\ coordPc' = "select"
    /\ UNCHANGED <<notLife, sigBothRunning, mainPc, engPc, servPc, rpcChan, servExitReqs, engExitReqs,
                   sigSeen, handled>>

\* a Wait released after a single Done (a barrier of one)
WgWaitReturnsAfterOne ==
    /\ mainPc = "wait"
    /\ wg <= 1
    /\ mainPc' = "returned"
    /\ UNCHANGED <<notLife, sigBothRunning, wg, coordPc, engPc, servPc, rpcChan,
                   servExitReqs, engExitReqs, sigSeen, handled>>

\* wg.Wait() returns once the counter is zero; StartupXuperos returns nil.
WgWaitReturns ==
    /\ mainPc = "wait"
    /\ wg = 0
    /\ mainPc' = "returned"
    /\ UNCHANGED <<notLife, sigBothRunning, wg, coordPc, engPc, servPc, rpcChan, servExitReqs,
                   engExitReqs, sigSeen, handled>>

NextLife ==
    \/ EngineStartReturns
    \/ ServRunReturns
    \/ RpcChanSenderReady
    \/ RecvEngChan
    \/ RecvRpcChan
    \/ RecvSigChan
    \/ ServExit
    \/ EngineExit
    \/ WgDone
    \/ WgWaitReturns

\* ========================================================== client cache

Tasks == 1..NumTasks
Hosts == {"h1", "h2"}
\* host lists the configuration may hold (sconf.ServConf.EndorserHosts)
ConfChoices == {<<>>, <<"h1">>, <<"h1", "h2">>, <<"h2", "h1", "h2">>}
NoClient == 0
NoResult == [host |-> "", client |-> NoClient, err |-> "none"]

\* rand.Intn(n): an index in [0, n)
RandIntn(n) == 0..(n - 1)

\* a host picked only when more than one is configured
getHostSkipsSingle(conf, index) ==
    IF Len(conf) > 1 THEN conf[index + 1] ELSE ""

\* getHost (part_000:166-175) for the index rand.Intn drew
getHost(conf, index) ==
    IF Len(conf) > 0 THEN conf[index + 1] ELSE ""

\* t.clientCache.Load(host): <<c, ok>>
Load(host) == <<clientCache[host], clientCache[host] # NoClient>>

\* no re-check under the mutex
LoadAlwaysMisses(host) == <<NoClient, FALSE>>

\* the second Load, made while holding the mutex (part_000:187)
LoadLocked(host) == Load(host)

\* NewRpcServ (part_000:34-40): an empty cache, an unlocked mutex
NewRpcServ ==
    /\ clientCache = [h \in Hosts |-> NoClient]
    /\ mutex = 0
    /\ tPc = [t \in Tasks |-> "idle"]
    /\ tHost = [t \in Tasks |-> ""]
    /\ tConn = [t \in Tasks |-> NoClient]
    /\ tRes = [t \in Tasks |-> NoResult]
    /\ calls = 0
    /\ dialCount = [h \in Hosts |-> 0]
    /\ dialFails = [h \in Hosts |-> 0]
    /\ nextConn = 1
    /\ returns = {}

InitCache ==
    /\ EndorserHosts \in ConfChoices
    /\ NewRpcServ

\* a task calls getClient(getHost())
CallGetClient(t) ==
    /\ tPc[t] = "idle"
    /\ calls < MaxCalls
    /\ calls' = calls + 1
    /\ \E index \in IF Len(EndorserHosts) > 0 THEN RandIntn(Len(EndorserHosts)) ELSE {0} :
          tHost' = [tHost EXCEPT ![t] = getHost(EndorserHosts, index)]
    /\ tPc' = [tPc EXCEPT ![t] = "l178"]
    /\ tRes' = [tRes EXCEPT ![t] = NoResult]
    /\ UNCHANGED <<notCache, EndorserHosts, clientCache, mutex, tConn, dialCount, dialFails,
                   nextConn, returns>>

\* the empty-host check made only after the mutex is taken
CheckHostAfterLock(t) ==
    /\ tPc[t] = "l178"
    /\ mutex = 0
    /\ IF tHost[t] = ""
       THEN /\ tPc' = [tPc EXCEPT ![t] = "idle"]
            /\ tRes' = [tRes EXCEPT ![t] =
                          [host |-> "", client |-> NoClient, err |-> "empty host"]]
            /\ mutex' = t
       ELSE /\ tPc' = [tPc EXCEPT ![t] = "l181"]
            /\ UNCHANGED <<tRes, mutex>>
    /\ UNCHANGED <<notCache, EndorserHosts, clientCache, tHost, tConn, calls,
                   dialCount, dialFails, nextConn, returns>>

\* part_000:178-180: the empty host is refused before anything else
CheckHost(t) ==
    /\ tPc[t] = "l178"
    /\ IF tHost[t] = ""
       THEN /\ tPc' = [tPc EXCEPT ![t] = "idle"]
            /\ tRes' = [tRes EXCEPT ![t] =
                          [host |-> "", client |-> NoClient, err |-> "empty host"]]
       ELSE /\ tPc' = [tPc EXCEPT ![t] = "l181"]
            /\ UNCHANGED tRes
    /\ UNCHANGED <<notCache, EndorserHosts, clientCache, mutex, tHost, tConn, calls,
                   dialCount, dialFails, nextConn, returns>>

\* part_000:181-183: the fast path, without the mutex
FastLoad(t) ==
    /\ tPc[t] = "l181"
    /\ LET r == Load(tHost[t]) IN
       IF r[2]
       THEN /\ tPc' = [tPc EXCEPT ![t] = "idle"]
            /\ tRes' = [tRes EXCEPT ![t] =
                          [host |-> tHost[t], client |-> r[1], err |-> "nil"]]
            /\ returns' = returns \cup {<<tHost[t], r[1]>>}
       ELSE /\ tPc' = [tPc EXCEPT ![t] = "l185"]
            /\ UNCHANGED <<notCache, tRes, returns>>
    /\ UNCHANGED <<notCache, EndorserHosts, clientCache, mutex, tHost, tConn, calls,
                   dialCount, dialFails, nextConn>>

\* part_000:185: t.mutex.Lock()
Lock(t) ==
    /\ tPc[t] = "l185"
    /\ mutex = 0
    /\ mutex' = t
    /\ tPc' = [tPc EXCEPT ![t] = "l187"]
    /\ UNCHANGED <<notCache, EndorserHosts, clientCache, tHost, tConn, tRes, calls,
                   dialCount, dialFails, nextConn, returns>>

\* part_000:187-189: the re-check under the mutex; a hit returns through the
\* deferred Unlock
Recheck(t) ==
    /\ tPc[t] = "l187"
    /\ LET r == LoadLocked(tHost[t]) IN
       IF r[2]
       THEN /\ tPc' = [tPc EXCEPT ![t] = "idle"]
            /\ tRes' = [tRes EXCEPT ![t] =
                          [host |-> tHost[t], client |-> r[1], err |-> "nil"]]
            /\ returns' = returns \cup {<<tHost[t], r[1]>>}
            /\ mutex' = 0
       ELSE /\ tPc' = [tPc EXCEPT ![t] = "l190"]
            /\ UNCHANGED <<notCache, tRes, returns, mutex>>
    /\ UNCHANGED <<notCache, EndorserHosts, clientCache, tHost, tConn, calls,
                   dialCount, dialFails, nextConn>>

\* part_000:190-194: grpc.Dial succeeds and the client is built
DialOk(t) ==
    /\ tPc[t] = "l190"
    /\ dialCount' = [dialCount EXCEPT ![tHost[t]] = @ + 1]
    /\ tConn' = [tConn EXCEPT ![t] = nextConn]
    /\ nextConn' = nextConn + 1
    /\ tPc' = [tPc EXCEPT ![t] = "l195"]
    /\ UNCHANGED <<notCache, EndorserHosts, clientCache, mutex, tHost, tRes, calls,
                   dialFails, returns>>

\* a failed Dial that returns without the Unlock
DialFailsKeepsLock(t) ==
    /\ tPc[t] = "l190"
    /\ dialCount' = [dialCount EXCEPT ![tHost[t]] = @ + 1]
    /\ dialFails' = [dialFails EXCEPT ![tHost[t]] = @ + 1]
    /\ tPc' = [tPc EXCEPT ![t] = "idle"]
    /\ tRes' = [tRes EXCEPT ![t] =
                  [host |-> tHost[t], client |-> NoClient, err |-> "dial"]]
    /\ UNCHANGED <<notCache, mutex, EndorserHosts, clientCache, tHost, tConn, calls,
                   nextConn, returns>>

\* part_000:190-193: grpc.Dial fails; the error is returned through the
\* deferred Unlock and nothing is stored
DialFails(t) ==
    /\ tPc[t] = "l190"
    /\ dialCount' = [dialCount EXCEPT ![tHost[t]] = @ + 1]
    /\ dialFails' = [dialFails EXCEPT ![tHost[t]] = @ + 1]
    /\ tPc' = [tPc EXCEPT ![t] = "idle"]
    /\ tRes' = [tRes EXCEPT ![t] =
                  [host |-> tHost[t], client |-> NoClient, err |-> "dial"]]
    /\ mutex' = 0
    /\ UNCHANGED <<notCache, EndorserHosts, clientCache, tHost, tConn, calls,
                   nextConn, returns>>

\* part_000:195: t.clientCache.Store(host, c)
Store(t) ==
    /\ tPc[t] = "l195"
    /\ clientCache' = [clientCache EXCEPT ![tHost[t]] = tConn[t]]
    /\ tPc' = [tPc EXCEPT ![t] = "l196"]
    /\ UNCHANGED <<notCache, EndorserHosts, mutex, tHost, tConn, tRes, calls,
                   dialCount, dialFails, nextConn, returns>>

\* part_000:196: return c, nil (and the deferred Unlock)
ReturnNew(t) ==
    /\ tPc[t] = "l196"
    /\ tPc' = [tPc EXCEPT ![t] = "idle"]
    /\ tRes' = [tRes EXCEPT ![t] =
                  [host |-> tHost[t], client |-> tConn[t], err |-> "nil"]]
    /\ returns' = returns \cup {<<tHost[t], tConn[t]>>}
    /\ mutex' = 0
    /\ UNCHANGED <<notCache, EndorserHosts, clientCache, tHost, tConn, calls,
                   dialCount, dialFails, nextConn>>

NextCache ==
    \/ \E t \in Tasks : CallGetClient(t)
    \/ \E t \in Tasks : CheckHost(t)
    \/ \E t \in Tasks : FastLoad(t)
    \/ \E t \in Tasks : Lock(t)
    \/ \E t \in Tasks : Recheck(t)
    \/ \E t \in Tasks : DialOk(t)
    \/ \E t \in Tasks : DialFails(t)
    \/ \E t \in Tasks : Store(t)
    \/ \E t \in Tasks : ReturnNew(t)

\* ========================================================== interceptor

\* A pb.Header; set = FALSE is the nil pointer (the getters of a nil header
\* return the zero values).  A Logid is a sequence, <<>> the empty string.
NilHeader == [set |-> FALSE, logid |-> <<>>, from |-> "", error |-> "SUCCESS"]
Header(logid, from, error) ==
    [set |-> TRUE, logid |-> logid, from |-> from, error |-> error]

\* pb.XChainErrorEnum: the wire status codes
XChainErrorEnum ==
    {"SUCCESS", "UNKNOW_ERROR", "CONNECT_REFUSE", "SERVICE_REFUSED_ERROR"}

\* codes of the standard errors (ecom.Error.Code); ErrSuccess is "ErrSuccess"
StdErrCodes == {"ErrSuccess", "ErrConnect", "ErrForbidden", "ErrUnregistered",
                "ErrUnknown"}

\* acom.StdErrToXchainErrMap: the registered codes and their wire codes
StdErrToXchainErrMap ==
    [c \in {"ErrSuccess", "ErrConnect", "ErrForbidden"} |->
        CASE c = "ErrSuccess" -> "SUCCESS"
          [] c = "ErrConnect" -> "CONNECT_REFUSE"
          [] c = "ErrForbidden" -> "SERVICE_REFUSED_ERROR"]

\* the errors a handler returns: nil, a standard error, or any other error
HandlerErrs == {"nil", "ErrConnect", "ErrForbidden", "ErrUnregistered", "plain"}

\* ecom.CastError: a standard error is itself, any other error is unknown
CastError(e) == IF e \in StdErrCodes THEN e ELSE "ErrUnknown"

\* utils.GenLogId(): the n-th generated id, never empty
GenLogId(n) == <<"gen", n>>

\* utils.GetHostName()
HostName == "thisnode"

\* genTraceId (part_000:149-151)
genTraceId == HostName

\* the map's zero value (SUCCESS = 0) for a code that is not registered
convertErrZeroValue(code) ==
    IF code \in DOMAIN StdErrToXchainErrMap THEN StdErrToXchainErrMap[code]
    ELSE "SUCCESS"

\* convertErr (part_000:154-164); code = "nil" is the nil *ecom.Error
convertErr(code) ==
    IF code = "nil" THEN "UNKNOW_ERROR"
    ELSE IF code \in DOMAIN StdErrToXchainErrMap THEN StdErrToXchainErrMap[code]
    ELSE "UNKNOW_ERROR"

\* the header left at its zero status
defReqHeaderSuccess(n) == Header(GenLogId(n), "", "SUCCESS")

\* defReqHeader (part_000:108-114), drawing the n-th log id
defReqHeader(n) == Header(GenLogId(n), "", "UNKNOW_ERROR")

\* getClietIP and createReqCtx (part_000:116-146): a context, or nil with an
\* error, which the interceptor drops (`reqCtx, _ :=`)
createReqCtx(peer, ctxErr) ==
    IF peer = "absent" THEN "nil"
    ELSE IF peer = "noaddr" THEN "nil"
    ELSE IF ctxErr THEN "nil"
    ELSE "ok"

\* a deferred function that does not call recover()
recoverNothing(fault) == fault = "none"

\* the deferred function (part_000:48-52): recover() stops any panic, so the
\* serving task survives whatever the fault
deferredRecover(fault) == TRUE

\* a response message: nil, or a message with its Header field
NilResp == [nil |-> TRUE, header |-> NilHeader]
Resp(h) == [nil |-> FALSE, header |-> h]

\* headers a handler may have put on its response itself
HandlerHeader == Header(<<"cli", 2>>, "handler", "CONNECT_REFUSE")

\* the requests the server receives
ReqHeaders ==
    {NilHeader} \cup
    {Header(l, f, e) : l \in {<<>>, <<"cli", 1>>}, f \in {"", "nodeA"},
                       e \in {"SUCCESS", "UNKNOW_ERROR"}}

NoOut == [valid |-> FALSE, resp |-> NilResp, err |-> "nil", panicked |-> FALSE]

IdleCall ==
    [pc |-> "idle", reqIn |-> NilHeader, req |-> NilHeader, peer |-> "ok",
     ctxErr |-> FALSE, reqCtx |-> "nil", respRes |-> NilResp, err |-> "nil",
     stdErr |-> "ErrSuccess", respHeader |-> NilHeader, attached |-> FALSE,
     handlerRan |-> FALSE, handlerSaw |-> NilHeader,
     handlerResp |-> NilResp, fault |-> "none",
     log |-> <<>>]

InitIcpt ==
    /\ ic = IdleCall
    /\ iCalls = 0
    /\ serving = TRUE
    /\ nextLogId = 0
    /\ faults = 0
    /\ out = NoOut

\* grpc hands a unary call to the interceptor: the named results start nil
CallBegin ==
    /\ ic.pc = "idle"
    /\ serving
    /\ iCalls < MaxRpcCalls
    /\ iCalls' = iCalls + 1
    /\ \E h \in ReqHeaders, p \in {"absent", "noaddr", "ok"}, ce \in BOOLEAN :
          ic' = [IdleCall EXCEPT !.pc = "l58", !.reqIn = h, !.req = h,
                                 !.peer = p, !.ctxErr = ce]
    /\ out' = NoOut
    /\ UNCHANGED <<notIcpt, faults, serving, nextLogId>>

\* a fill that rebuilds the header instead of setting the one field
setLogidRebuilds(h, n) == Header(GenLogId(n), "", "UNKNOW_ERROR")

\* part_000:64-66: req.GetHeader().Logid = utils.GenLogId(), in place
setLogid(h, n) == [h EXCEPT !.logid = GenLogId(n)]

\* part_000:54-67: set request header.  A nil header is replaced by
\* defReqHeader(); an empty Logid is then filled in place.
SetReqHeader ==
    /\ ic.pc = "l58"
    /\ LET n1 == IF ic.req.set THEN nextLogId ELSE nextLogId + 1
           h1 == IF ic.req.set THEN ic.req ELSE defReqHeader(n1)
           n2 == IF h1.logid = <<>> THEN n1 + 1 ELSE n1
           h2 == IF h1.logid = <<>> THEN setLogid(h1, n2) ELSE h1
       IN /\ ic' = [ic EXCEPT !.pc = "l70", !.req = h2]
          /\ nextLogId' = n2
    /\ UNCHANGED <<notIcpt, faults, iCalls, serving, out>>

\* part_000:69-71: set request context
SetReqCtx ==
    /\ ic.pc = "l70"
    /\ ic' = [ic EXCEPT !.pc = "l74", !.reqCtx = createReqCtx(ic.peer, ic.ctxErr)]
    /\ UNCHANGED <<notIcpt, faults, iCalls, serving, nextLogId, out>>

\* part_000:73-77: output access log.  reqCtx.GetClientIp() on the nil
\* context is a nil dereference: a panic.
AccessLog ==
    /\ ic.pc = "l74"
    /\ IF ic.reqCtx = "nil"
       THEN ic' = [ic EXCEPT !.pc = "panic", !.fault = "nil reqCtx"]
       ELSE ic' = [ic EXCEPT !.pc = "l82", !.log = Append(@, "access")]
    /\ UNCHANGED <<notIcpt, faults, iCalls, serving, nextLogId, out>>

\* part_000:82: respRes, err = handler(ctx, req); the handler returns
HandlerReturns ==
    /\ ic.pc = "l82"
    /\ \E r \in {NilResp, Resp(NilHeader), Resp(HandlerHeader)}, e \in HandlerErrs :
          ic' = [ic EXCEPT !.pc = "l83", !.respRes = r, !.err = e,
                           !.handlerRan = TRUE, !.handlerSaw = ic.req,
                           !.handlerResp = r]
    /\ UNCHANGED <<notIcpt, faults, iCalls, serving, nextLogId, out>>

\* part_000:82: the handler panics; the named results keep their values
HandlerPanics ==
    /\ ic.pc = "l82"
    /\ ic' = [ic EXCEPT !.pc = "panic", !.fault = "handler", !.handlerSaw = ic.req]
    /\ UNCHANGED <<notIcpt, faults, iCalls, serving, nextLogId, out>>

\* part_000:81-91: the standard error of the call and the response header
BuildRespHeader ==
    /\ ic.pc = "l83"
    /\ LET se == IF ic.err # "nil" THEN CastError(ic.err) ELSE "ErrSuccess"
       IN ic' = [ic EXCEPT !.pc = "l93", !.stdErr = se,
                           !.respHeader = Header(ic.req.logid, genTraceId,
                                                 convertErr(se))]
    /\ UNCHANGED <<notIcpt, faults, iCalls, serving, nextLogId, out>>

\* a header step that sets the header whether or not the response has one
SetRespHeaderOverwrites ==
    /\ ic.pc = "l93"
    /\ IF ic.respRes.nil
       THEN ic' = [ic EXCEPT !.pc = "panic", !.fault = "nil respRes"]
       ELSE ic' = [ic EXCEPT !.pc = "l100", !.respRes = Resp(ic.respHeader),
                             !.attached = TRUE]
    /\ UNCHANGED <<notIcpt, faults, iCalls, serving, nextLogId, out>>

\* part_000:92-96: reflect.ValueOf(respRes).Elem().FieldByName("Header")
\* panics on a nil response; otherwise the header is set when it is nil.
SetRespHeader ==
    /\ ic.pc = "l93"
    /\ IF ic.respRes.nil
       THEN ic' = [ic EXCEPT !.pc = "panic", !.fault = "nil respRes"]
       ELSE IF ~ic.respRes.header.set
       THEN ic' = [ic EXCEPT !.pc = "l100", !.respRes = Resp(ic.respHeader),
                             !.attached = TRUE]
       ELSE ic' = [ic EXCEPT !.pc = "l100"]
    /\ UNCHANGED <<notIcpt, faults, iCalls, serving, nextLogId, out>>

\* part_000:98-102: output ending log
EndingLog ==
    /\ ic.pc = "l100"
    /\ ic' = [ic EXCEPT !.pc = "l104", !.log = Append(@, "done")]
    /\ UNCHANGED <<notIcpt, faults, iCalls, serving, nextLogId, out>>

\* part_000:104 and 48-52: return respRes, err through the deferred function
Return ==
    /\ ic.pc = "l104"
    /\ serving' = deferredRecover(ic.fault)
    /\ ic' = [ic EXCEPT !.pc = "idle"]
    /\ out' = [valid |-> TRUE, resp |-> ic.respRes, err |-> ic.err,
               panicked |-> FALSE]
    /\ UNCHANGED <<notIcpt, faults, iCalls, nextLogId>>

\* part_000:48-52: a panic unwinds into the deferred function, which recovers
\* and logs it; the call returns the named results as they stand
Recover ==
    /\ ic.pc = "panic"
    /\ serving' = deferredRecover(ic.fault)
    /\ IF deferredRecover(ic.fault)
       THEN /\ ic' = [ic EXCEPT !.pc = "idle", !.log = Append(@, "panic")]
            /\ out' = [valid |-> TRUE, resp |-> ic.respRes, err |-> ic.err,
                       panicked |-> TRUE]
       ELSE /\ ic' = [ic EXCEPT !.pc = "crashed"]
            /\ UNCHANGED out
    /\ faults' = faults + 1
    /\ UNCHANGED <<notIcpt, iCalls, nextLogId>>

NextIcpt ==
    \/ CallBegin
    \/ SetReqHeader
    \/ SetReqCtx
    \/ AccessLog
    \/ HandlerReturns
    \/ HandlerPanics
    \/ BuildRespHeader
    \/ SetRespHeader
    \/ EndingLog
    \/ Return
    \/ Recover

\* ======================================================== specifications

\* the parts of the state a specification does not exercise, at rest
CacheAtRest == EndorserHosts = <<>> /\ NewRpcServ

InitLifeSpec == InitLife /\ CacheAtRest /\ InitIcpt
SpecLife == InitLifeSpec /\ [][NextLife]_vars

\* The Go scheduler runs every runnable goroutine: a goroutine that can take
\* its next step eventually takes it.  Nothing obliges a subsystem to stop on
\* its own, rpcChan to deliver, or a signal to arrive.
SpecLifeFair ==
    /\ InitLifeSpec
    /\ [][NextLife]_vars
    /\ WF_vars(RecvEngChan)
    /\ WF_vars(RecvRpcChan)
    /\ WF_vars(ServExit)
    /\ WF_vars(EngineExit)
    /\ WF_vars(WgDone)
    /\ WF_vars(WgWaitReturns)

\* engine.Start() and servMG.Run() return once their Exit was requested
EngineStopsOnExit == engExitReqs > 0 /\ EngineStartReturns
ServStopsOnExit == servExitReqs > 0 /\ ServRunReturns

\* SpecLifeFair, with subsystems that stop when asked to
SpecLifeLive ==
    /\ SpecLifeFair
    /\ WF_vars(EngineStopsOnExit)
    /\ WF_vars(ServStopsOnExit)

InitCacheSpec == InitCache /\ InitLife /\ InitIcpt
SpecCache == InitCacheSpec /\ [][NextCache]_vars

InitIcptSpec == InitIcpt /\ InitLife /\ CacheAtRest
SpecIcpt == InitIcptSpec /\ [][NextIcpt]_vars

\* ================================================================= claims

\* ---------------------------------------------------------------- C1
\* C1: whatever the interleaving of the tasks calling getClient, at most one
\* connection is established (a Dial that succeeds) per host, so with no Dial
\* failure exactly one Dial is made for a host however many callers race on
\* it; and every successful call for a host returned the one handle the cache
\* holds for it.
C1_OneConnectionPerHost ==
    /\ \A h \in Hosts : dialCount[h] - dialFails[h] <= 1
    /\ \A r \in returns : clientCache[r[1]] = r[2]
    /\ \A r1, r2 \in returns : r1[1] = r2[1] => r1[2] = r2[2]

\* two tasks raced on the same unseen host: both missed the fast path, one
\* dialled and stored while the other waits for the mutex
C1_Witness ==
    \E t1, t2 \in Tasks :
        /\ t1 # t2
        /\ tHost[t1] = tHost[t2]
        /\ tPc[t1] = "l185"
        /\ tPc[t2] = "l196"
        /\ dialCount[tHost[t1]] = 1
        /\ dialFails[tHost[t1]] = 0

\* ---------------------------------------------------------------- C2
\* C2: StartupXuperos has returned only if engine.Start() and servMG.Run()
\* have both returned and both completions were received by the coordinating
\* goroutine and counted on the WaitGroup.
C2_ReturnsOnlyAfterBothCompleted ==
    mainPc = "returned" => (engPc = "done" /\ servPc = "done" /\ wg = 0)

\* ---------------------------------------------------------------- C3
\* C3: after a termination signal received while both subsystems were running
\* has been handled, the service and the engine have each received an exit
\* request, and StartupXuperos has returned only if both subsystems reported
\* completion.
C3_SignalStopsBothAndWaits ==
    (sigBothRunning /\ coordPc \notin {"l93", "l94"}) =>
        /\ servExitReqs >= 1
        /\ engExitReqs >= 1
        /\ (mainPc = "returned" => (engPc = "done" /\ servPc = "done"))

\* ---------------------------------------------------------------- C4
\* C4: in a run without termination signal where the engine completed on its
\* own (its completion is the first event handled), once StartupXuperos has
\* returned the service has received exactly one exit request and its
\* completion has been waited for.
C4_EngineDoneStopsServiceOnce ==
    (/\ sigSeen = 0
     /\ Len(handled) >= 1
     /\ handled[1] = "engChan"
     /\ mainPc = "returned") =>
        (servExitReqs = 1 /\ servPc = "done")

\* ---------------------------------------------------------------- C5
\* C5: once servMG.Run() has returned and runServ's goroutine offers the
\* completion on its channel, the coordinating goroutine eventually receives
\* it, requests engine exit and counts the completion.
C5_ServiceCompletionHandled ==
    (servPc = "send") ~> (servPc = "done" /\ engExitReqs >= 1 /\ wg < 2)

\* ---------------------------------------------------------------- C6
\* C6: a call whose handler panicked returns a response carrying an envelope
\* of status INTERNAL.
C6_PanicGivesInternal ==
    (ic.pc = "idle" /\ out.valid /\ ic.fault = "handler") =>
        (/\ ~out.resp.nil
         /\ out.resp.header.set
         /\ out.resp.header.error = "INTERNAL")

\* ---------------------------------------------------------------- C7
\* C7: no fault of an interceptor call, raised by the handler or by the
\* interceptor's own steps, escapes it: the serving task stays alive, a call
\* that panicked still returns, and a later call with a peer address and a
\* handler that returns a response completes normally, with its ending log.
C7_FaultContained ==
    /\ serving
    /\ ic.pc # "crashed"
    /\ (ic.pc = "idle" /\ ic.fault # "none") => (out.valid /\ out.panicked)
    /\ (ic.pc = "idle" /\ ic.handlerRan /\ ~ic.respRes.nil) =>
           (/\ out.valid
            /\ ~out.panicked
            /\ ic.log = <<"access", "done">>)

\* after an earlier call panicked, the next call completed normally
C7_Witness ==
    /\ faults >= 1
    /\ ic.pc = "idle"
    /\ ic.fault = "none"
    /\ out.valid
    /\ ~out.panicked
    /\ ic.log = <<"access", "done">>

\* ---------------------------------------------------------------- C8
\* the status the claim designates for a handler error e
C8_Designated(e) ==
    IF e = "nil" THEN "SUCCESS"
    ELSE IF e \in DOMAIN StdErrToXchainErrMap THEN StdErrToXchainErrMap[e]
    ELSE "UNKNOW_ERROR"

\* C8: whenever the handler has returned, the status of the header the
\* interceptor builds, and of the envelope it attaches to the response, is
\* SUCCESS for no error, the registered wire code for a registered error
\* kind, and UNKNOW_ERROR for any other error.
C8_StatusMapping ==
    /\ (ic.handlerRan /\ ic.pc \in {"l93", "l100", "l104", "idle", "panic"}) =>
           ic.respHeader.error = C8_Designated(ic.err)
    /\ (ic.handlerRan /\ ic.attached) =>
           ic.respRes.header.error = C8_Designated(ic.err)
    /\ (ic.pc = "idle" /\ out.valid /\ ic.attached) =>
           out.resp.header.error = C8_Designated(out.err)

\* calls of each of the three kinds have returned with the attached envelope
C8_Witness ==
    /\ ic.pc = "idle"
    /\ out.valid
    /\ ic.attached
    /\ out.err = "ErrUnregistered"
    /\ out.resp.header.error = "UNKNOW_ERROR"

\* ---------------------------------------------------------------- C9
\* C9: every response the interceptor returns is a message carrying an
\* envelope whose status is one of the wire status codes.
C9_EveryResponseHasEnvelope ==
    (ic.pc = "idle" /\ out.valid) =>
        (/\ ~out.resp.nil
         /\ out.resp.header.set
         /\ out.resp.header.error \in XChainErrorEnum)

\* ---------------------------------------------------------------- C10
\* C10: once the request header step has run, a request that arrived without
\* header carries a synthesized one (a generated, non-empty Logid, an empty
\* FromNode, status UNKNOW_ERROR); and the handler, when invoked, sees a
\* request with a non-empty Logid whatever the request was.
C10_HeaderInjected ==
    /\ (ic.pc \notin {"idle", "l58"} /\ ~ic.reqIn.set) =>
           (/\ ic.req.set
            /\ ic.req.logid # <<>>
            /\ ic.req.logid \in {GenLogId(n) : n \in 1..nextLogId}
            /\ ic.req.from = ""
            /\ ic.req.error = "UNKNOW_ERROR")
    /\ (ic.pc = "l82") => (ic.req.set /\ ic.req.logid # <<>>)
    /\ (ic.handlerRan \/ ic.fault = "handler") =>
           (ic.handlerSaw.set /\ ic.handlerSaw.logid # <<>>)

\* the handler is about to run on a request that arrived without header
C10_Witness ==
    /\ ic.pc = "l82"
    /\ ~ic.reqIn.set
    /\ ic.req.set

\* ---------------------------------------------------------------- C11
\* C11: once the request header step has run on a request that came with a
\* header, its FromNode and Error are those it arrived with; a header whose
\* Logid was empty differs from the one that arrived in the Logid alone, now
\* a generated one, and a header whose Logid was not empty is the one that
\* arrived.
C11_OnlyLogidFilled ==
    (ic.pc \notin {"idle", "l58"} /\ ic.reqIn.set) =>
        /\ ic.req.set
        /\ ic.req.from = ic.reqIn.from
        /\ ic.req.error = ic.reqIn.error
        /\ (ic.reqIn.logid = <<>> =>
               ic.req.logid \in {GenLogId(n) : n \in 1..nextLogId})
        /\ (ic.reqIn.logid # <<>> => ic.req = ic.reqIn)

\* a header with FromNode and status SUCCESS but no Logid got its Logid
C11_Witness ==
    /\ ic.pc = "l70"
    /\ ic.reqIn.set
    /\ ic.reqIn.logid = <<>>
    /\ ic.reqIn.from = "nodeA"
    /\ ic.reqIn.error = "SUCCESS"
    /\ ic.req.logid # <<>>

\* ---------------------------------------------------------------- C12
\* C12: the step of getClient that finds the host empty ends the call with
\* the "empty host" error, and leaves the cache, the mutex and the number of
\* Dial calls as they were; a call that returned that error was made with the
\* empty host.
C12_EmptyHostRefused ==
    [][\A t \in Tasks :
          /\ (tPc[t] = "l178" /\ tHost[t] = "" /\ tPc'[t] # "l178") =>
                 /\ tPc'[t] = "idle"
                 /\ tRes'[t].err = "empty host"
                 /\ tRes'[t].client = NoClient
                 /\ clientCache' = clientCache
                 /\ mutex' = mutex
                 /\ dialCount' = dialCount
                 /\ nextConn' = nextConn
          /\ (tRes'[t].err = "empty host") => tHost'[t] = ""]_vars

\* a call with the empty host has returned its error and nothing was dialled
C12_Witness ==
    \E t \in Tasks :
        /\ tPc[t] = "idle"
        /\ tHost[t] = ""
        /\ tRes[t].err = "empty host"
        /\ mutex = 0
        /\ \A h \in Hosts : dialCount[h] = 0

\* ---------------------------------------------------------------- C13
\* C13: the step of getClient in which Dial fails returns the dial error,
\* stores nothing (the cache is as it was) and releases the mutex; and the
\* mutex is held only by a task that is between Lock and its return.
C13_DialFailureNotCached ==
    [][\A t \in Tasks :
          /\ (tPc[t] = "l190" /\ tPc'[t] = "idle") =>
                 /\ tRes'[t].err = "dial"
                 /\ tRes'[t].client = NoClient
                 /\ clientCache' = clientCache
                 /\ clientCache'[tHost[t]] = NoClient
                 /\ mutex' = 0
          /\ (mutex' = t) => tPc'[t] \in {"l187", "l190", "l195", "l196"}]_vars

\* after a failed Dial of a host, a later call dialled it again, succeeded
\* and the client is cached
C13_Witness ==
    \E h \in Hosts :
        /\ dialFails[h] >= 1
        /\ dialCount[h] = dialFails[h] + 1
        /\ clientCache[h] # NoClient
        /\ <<h, clientCache[h]>> \in returns
        /\ mutex = 0

\* ---------------------------------------------------------------- C15
\* the elements of a host list
C15_Elements(conf) == {conf[i] : i \in 1..Len(conf)}

C14_ContextErrorSurfaced ==
    (ic.pc = "idle" /\ out.valid /\ ic.peer \in {"absent", "noaddr"}) =>
        /\ out.err # "nil"
        /\ ~out.resp.nil
        /\ out.resp.header.set
        /\ out.resp.header.error # "SUCCESS"

C17_AccessThenCompletion ==
    /\ (ic.pc = "l82") => ic.log = <<"access">>
    /\ (ic.pc = "idle" /\ out.valid /\ ic.handlerRan) =>
           ic.log = <<"access", "done">>

\* ---------------------------------------------------------------- C18
\* the coordinating goroutine has received a completion
C18_CompletionSeen == \E i \in 1..Len(handled) : handled[i] # "sigChan"

C18_Running ==
    /\ mainPc = "wait"
    /\ servExitReqs = 0 /\ engExitReqs = 0
    /\ ~C18_CompletionSeen
    /\ wg = 2

C18_StoppingBoth ==
    /\ mainPc = "wait"
    /\ (servExitReqs > 0 \/ engExitReqs > 0 \/ C18_CompletionSeen)

\* both counts of the WaitGroup were taken and StartupXuperos returned
C18_Stopped == mainPc = "returned" /\ wg = 0

C18_Rank == IF C18_Running THEN 0 ELSE IF C18_StoppingBoth THEN 1 ELSE 2

C19_BarrierCountsCompletions ==
    /\ wg \in {0, 1, 2}
    /\ (coordPc \notin {"l87", "l88", "l90", "l91"}) =>
           wg = 2 - (IF engPc = "done" THEN 1 ELSE 0)
                  - (IF servPc = "done" THEN 1 ELSE 0)

\* ---------------------------------------------------------------- C20
\* C20: with fair scheduling and subsystems that return once their exit was
\* requested, once the coordinating goroutine has received an event or a
\* subsystem has completed, eventually both completions are received and
\* counted and StartupXuperos returns.
C20_ShutdownCompletes ==
    (handled # <<>> \/ engPc # "start" \/ servPc # "run") ~>
        (mainPc = "returned" /\ engPc = "done" /\ servPc = "done" /\ wg = 0)

====
